---- MODULE Spec2Model ----
(***************************************************************************)
(* MarketPulse dashboard (src/dashboard.py, the session-caching variant;   *)
(* src/unnamed/part_000 is the earlier variant with the same five fetch    *)
(* functions).  The script is re-run from top to bottom on every           *)
(* activation (the 60 s auto-refresh timer or a widget change).  Each of   *)
(* the five fetch functions is wrapped by st.cache_data(ttl=...), which    *)
(* memoises the RETURN VALUE of the function per (function, arguments) for *)
(* ttl seconds and stores nothing when the function raises.                *)
(*                                                                         *)
(* Time is in seconds.  Sentiment polarities are in units of 1/10000.      *)
(***************************************************************************)
EXTENDS Integers, Sequences, FiniteSets, TLC

VARIABLES
    now,               \* wall clock, seconds
    cache,             \* st.cache_data store: key -> [value, storedAt]
    session,           \* st.session_state: name -> value
    selected_crypto,   \* value of the crypto selectbox
    selected_stock,    \* value of the stock selectbox
    api_key,           \* value of the NewsAPI key text input ("" when empty)
    pc,                \* position of the script run
    runs,              \* script runs started so far
    version,           \* the version of the market data the providers serve
    faults,            \* anomalous provider answers and stalls so far
    status,            \* how the last script run ended
    news_placeholder,  \* what the news tab shows in this run
    lastCall,          \* the last call of a cached function and what it did
    probe              \* one direct call of fetch_english_finance_news

vars == <<now, cache, session, selected_crypto, selected_stock, api_key,
          pc, runs, version, faults, status, news_placeholder, lastCall, probe>>

\* the dashboard's own state
dash == <<now, cache, session, selected_crypto, selected_stock, api_key,
          pc, runs, version, faults, status, news_placeholder, lastCall>>

----------------------------------------------------------------------------
(* Bounds of the model *)

\* the clock advances in steps of TimeStep seconds, MaxTicks times
TimeStep == 30
MaxTicks == 4
\* the script is run at most MaxRuns times
MaxRuns == 3
\* the providers' data has versions 1..MaxVersion (a price is its version)
MaxVersion == 2
\* at most MaxFaults provider answers are anomalous (an exception, an error
\* status, a malformed or an empty body) or stall for a time step
MaxFaults == 2
\* news feeds of the pure-function specification have at most MaxFeed articles
MaxFeed == 3

(* Program constants *)

TtlPrice == 60
TtlNews == 120
DefaultMaxArticles == 5
DefaultDays == 30

\* the first two of the six crypto symbols and the first of the six stock
\* symbols of the source; every symbol is fetched by the same code
default_crypto == <<"BTCUSDT", "ETHUSDT">>
default_stocks == <<"AAPL">>

crypto_names == [s \in {"BTCUSDT", "ETHUSDT"} |->
                    IF s = "BTCUSDT" THEN "Bitcoin" ELSE "Ethereum"]

ApiKeys == {"key1", "key2"}
Versions == 1..MaxVersion

Range(s) == {s[i] : i \in DOMAIN s}

----------------------------------------------------------------------------
(* Results of a function body: a returned value or a raised exception *)

Return(v) == [kind |-> "return", value |-> v]
Raise == [kind |-> "raise"]

\* pd.DataFrame() / a frame without rows; DataFrame.empty
EmptyFrame == << >>
empty(df) == Len(df) = 0

----------------------------------------------------------------------------
(* Provider responses.  Exception is requests.get / yfinance raising (a    *)
(* connection error, a timeout); an HTTP response has a status and a body, *)
(* and a body may lack a field the code reads (wellFormed = FALSE).        *)

Exception == [exception |-> TRUE]
Http(code, wellFormed, body) == [status |-> code, wellFormed |-> wellFormed, body |-> body]
raised(r) == "exception" \in DOMAIN r

\* a healthy answer carries the current data; the others are the anomalies
healthy(r) == ~raised(r) /\ r.status = 200 /\ r.wellFormed /\ r.body # << >>
\* a failed request: an exception, an error status or a malformed body
failure(r) == raised(r) \/ r.status # 200 \/ ~r.wellFormed

TickerResponses ==
    {Exception, Http(500, TRUE, << >>), Http(200, FALSE, << >>), Http(200, TRUE, <<version>>)}

\* fetch_crypto_data: one request per symbol, in list order; a row is
\* appended only for status 200; data.get("priceChangePercent") + "%"
\* raises TypeError when the field is missing; an exception ends the loop.
RECURSIVE crypto_rows(_, _, _)
crypto_rows(symbols, resp, results) ==
    IF symbols = << >> THEN Return(results)
    ELSE LET symbol == Head(symbols)
             r == resp[symbol]
         IN  IF raised(r) THEN Raise
             ELSE IF r.status = 200
                  THEN IF ~r.wellFormed THEN Raise
                       ELSE crypto_rows(Tail(symbols), resp,
                                Append(results,
                                    [Symbol |-> symbol,
                                     Name |-> crypto_names[symbol],
                                     LastPrice |-> r.body[1]]))
                  ELSE crypto_rows(Tail(symbols), resp, results)

fetch_crypto_data(crypto_symbols, resp) == crypto_rows(crypto_symbols, resp, << >>)

\* fetch_crypto_historical: one klines request; status 200 gives the frame
\* of closes (one row per kline, tagged here with the symbol the URL asked
\* for); any other status gives pd.DataFrame(); float(k[4]) on a malformed
\* row raises.
KlineResponses ==
    {Exception, Http(500, TRUE, << >>), Http(200, FALSE, << >>), Http(200, TRUE, << >>),
     Http(200, TRUE, <<version>>)}

fetch_crypto_historical(symbol, days, r) ==
    IF raised(r) THEN Raise
    ELSE IF r.status = 200
         THEN IF ~r.wellFormed THEN Raise
              ELSE Return([i \in 1..Len(r.body) |->
                              [Symbol |-> symbol, Close |-> r.body[i]]])
         ELSE Return(EmptyFrame)

\* fetch_stock_data: ticker.info per symbol; no status check; one row per
\* symbol whatever the info holds (info.get gives the symbol itself for a
\* missing longName and None, here 0, for a missing price); an exception
\* propagates.
\* yfinance answers are given the same shape: status 200, the info's fields
\* present or not, and the price or the closes as body
InfoResponses == {Exception, Http(200, FALSE, << >>), Http(200, TRUE, <<version>>)}

RECURSIVE stock_rows(_, _, _)
stock_rows(symbols, resp, results) ==
    IF symbols = << >> THEN Return(results)
    ELSE LET symbol == Head(symbols)
             info == resp[symbol]
         IN  IF raised(info) THEN Raise
             ELSE stock_rows(Tail(symbols), resp,
                      Append(results,
                          [Symbol |-> symbol,
                           Name |-> IF info.wellFormed THEN "longName" ELSE symbol,
                           CurrentPrice |-> IF info.wellFormed THEN info.body[1] ELSE 0]))

fetch_stock_data(stock_symbols, resp) == stock_rows(stock_symbols, resp, << >>)

\* fetch_stock_historical: ticker.history(period) returned as it is (an
\* empty frame when the provider has nothing); an exception propagates.
HistoryResponses == {Exception, Http(200, TRUE, << >>), Http(200, TRUE, <<version>>)}

fetch_stock_historical(symbol, period, hist) ==
    IF raised(hist) THEN Raise
    ELSE Return([i \in 1..Len(hist.body) |->
                    [Symbol |-> symbol, Close |-> hist.body[i]]])

----------------------------------------------------------------------------
(* News and sentiment *)

\* an article of the provider's JSON: its text (title and description) is
\* summarised by the polarity TextBlob gives it, in 1/10000; hasSource is
\* whether art["source"]["name"] exists.
Article(id, polarity, hasSource) ==
    [id |-> id, polarity |-> polarity, hasSource |-> hasSource]

\* round(polarity, 3): to the nearest multiple of 10 (1/10000 units), ties
\* to the even thousandth
round3(p) ==
    LET q == p \div 10
        r == p % 10
    IN  IF r < 5 THEN 10 * q
        ELSE IF r > 5 THEN 10 * (q + 1)
        ELSE IF q % 2 = 0 THEN 10 * q ELSE 10 * (q + 1)

slice_one_more(raw_articles, max_articles) ==
    SubSeq(raw_articles, 1, IF Len(raw_articles) < max_articles + 1
                            THEN Len(raw_articles) ELSE max_articles + 1)

\* raw_articles[:max_articles]
slice(raw_articles, max_articles) ==
    SubSeq(raw_articles, 1, IF Len(raw_articles) < max_articles
                            THEN Len(raw_articles) ELSE max_articles)

RECURSIVE sum(_)
sum(s) == IF s = << >> THEN 0 ELSE Head(s) + sum(Tail(s))

\* a float kept exact: numerator over denominator; 0.0 is 0/1
Ratio(n, d) == [num |-> n, den |-> d]

average_undivided(sentiments) == Ratio(sum(sentiments), 1)

\* avg_sentiment = 0.0; if sentiments: avg_sentiment = sum(...) / len(...)
average(sentiments) ==
    IF Len(sentiments) > 0 THEN Ratio(sum(sentiments), Len(sentiments))
    ELSE Ratio(0, 1)

\* fetch_english_finance_news: one request; status 200 gives the first
\* max_articles articles, each with round(polarity, 3), and the mean of the
\* unrounded polarities (0.0 for no article); another status gives ([], 0.0)
\* and a warning; art["source"]["name"] raises KeyError when missing.
fetch_english_finance_news(key, max_articles, r) ==
    IF raised(r) THEN Raise
    ELSE IF r.status = 200
         THEN LET selected == slice(r.body, max_articles)
                  sentiments == [i \in 1..Len(selected) |-> selected[i].polarity]
              IN  IF \E i \in 1..Len(selected) : ~selected[i].hasSource
                  THEN Raise
                  ELSE Return([articles |->
                                  [i \in 1..Len(selected) |->
                                      [id |-> selected[i].id,
                                       sentiment |-> round3(selected[i].polarity)]],
                               avg_sentiment |-> average(sentiments),
                               warning |-> FALSE])
         ELSE Return([articles |-> << >>, avg_sentiment |-> Ratio(0, 1),
                      warning |-> TRUE])

----------------------------------------------------------------------------
(* st.cache_data *)

ttl_all_price(fn) == TtlPrice

\* the ttl each decorator gives
ttl(fn) == IF fn = "fetch_english_finance_news" THEN TtlNews ELSE TtlPrice

\* a dict with the entry k set to e
Put(f, k, e) == [x \in DOMAIN f \cup {k} |-> IF x = k THEN e ELSE f[x]]

fresh_inclusive(entry, fn) == now - entry.storedAt <= ttl(fn)

\* an entry is served while less than ttl seconds old
fresh(entry, fn) == now - entry.storedAt < ttl(fn)

make_key_fn_only(fn, args) == <<fn>>

\* an entry's key: the function and the values of its arguments
make_key(fn, args) == <<fn>> \o args

\* A call of the cached function fn with arguments args, where body is what
\* the function's body does if it runs now.  A fresh entry is returned
\* without running the body; otherwise the body runs once, a returned value
\* is stored with the current time, and an exception stores nothing.
cache_data(fn, args, body) ==
    LET key == make_key(fn, args) IN
    IF key \in DOMAIN cache /\ fresh(cache[key], fn)
    THEN [cache |-> cache, fn |-> fn, args |-> args, fetches |-> 0,
          kind |-> "return", ret |-> <<cache[key].value>>, fetched |-> << >>]
    ELSE IF body.kind = "return"
         THEN [cache |-> Put(cache, key, [value |-> body.value, storedAt |-> now]),
               fn |-> fn, args |-> args, fetches |-> 1, kind |-> "return",
               ret |-> <<body.value>>, fetched |-> <<body.value>>]
         ELSE [cache |-> cache, fn |-> fn, args |-> args, fetches |-> 1,
               kind |-> "raise", ret |-> << >>, fetched |-> << >>]

\* what lastCall records of the call c made with the provider answers given:
\* where it was made, for which function and arguments, how often the body
\* ran, what the body produced, what the call returned, and whether none,
\* some or all of the body's requests failed
Record(c, answers) ==
    [site |-> pc, fn |-> c.fn, args |-> c.args, fetches |-> c.fetches,
     kind |-> c.kind, ret |-> c.ret, fetched |-> c.fetched,
     failed |-> IF c.fetches = 0 \/ \A i \in DOMAIN answers : ~failure(answers[i])
                THEN "none"
                ELSE IF \A i \in DOMAIN answers : failure(answers[i])
                     THEN "all" ELSE "some"]

\* no cached function has been called in this run
NoCall == [site |-> "none", fn |-> "none", args |-> << >>, fetches |-> 0,
           kind |-> "none", ret |-> << >>, fetched |-> << >>, failed |-> "none"]

----------------------------------------------------------------------------
(* The script run *)

\* no direct call is being looked at
NoProbe == [response |-> Exception, max_articles |-> 0, result |-> << >>]

InitDash ==
    /\ now = 0
    /\ cache = << >>
    /\ session = << >>
    /\ selected_crypto = default_crypto[1]
    /\ selected_stock = default_stocks[1]
    /\ api_key = ""
    /\ pc = "idle"
    /\ runs = 0
    /\ version = 1
    /\ faults = 0
    /\ status = "none"
    /\ news_placeholder = "none"
    /\ lastCall = NoCall

Init == InitDash /\ probe = NoProbe

\* Time passes and the providers' data may change.  Between runs it passes
\* freely; within a run a time step is a stalled request, counted as a fault.
Tick ==
    /\ now + TimeStep <= MaxTicks * TimeStep
    /\ now' = now + TimeStep
    /\ version' \in Versions
    /\ IF pc = "idle" THEN UNCHANGED faults
       ELSE faults < MaxFaults /\ faults' = faults + 1
    /\ UNCHANGED <<cache, session, selected_crypto, selected_stock, api_key,
                   pc, runs, status, news_placeholder, lastCall, probe>>

\* The timer or a widget change re-runs the script: the first run has the
\* widgets' defaults, a later run differs from the one before in at most
\* the one widget the user has changed.
Rerun ==
    /\ pc = "idle"
    /\ runs < MaxRuns
    /\ runs' = runs + 1
    /\ pc' = "initial_crypto"
    /\ status' = "running"
    /\ news_placeholder' = "none"
    /\ lastCall' = NoCall
    /\ IF status = "none"
       THEN UNCHANGED <<selected_crypto, selected_stock, api_key>>
       ELSE \/ UNCHANGED <<selected_crypto, selected_stock, api_key>>
            \/ /\ selected_crypto' \in Range(default_crypto)
               /\ UNCHANGED <<selected_stock, api_key>>
            \/ /\ selected_stock' \in Range(default_stocks)
               /\ UNCHANGED <<selected_crypto, api_key>>
            \/ /\ api_key' \in ApiKeys \cup {""}
               /\ UNCHANGED <<selected_crypto, selected_stock>>
    /\ UNCHANGED <<now, cache, session, version, faults, probe>>

\* an uncaught exception ends the run; what was written before it stays
Abort ==
    /\ pc' = "idle"
    /\ status' = "aborted"

\* the anomalous answers among those of a call that reached the provider
Charge(c, answers) ==
    LET n == c.fetches * Cardinality({i \in DOMAIN answers : ~healthy(answers[i])})
    IN  faults + n <= MaxFaults /\ faults' = faults + n

\* if 'crypto_df' not in st.session_state: ... = fetch_crypto_data(default_crypto)
InitialCrypto ==
    /\ pc = "initial_crypto"
    /\ IF "crypto_df" \notin DOMAIN session
       THEN \E resp \in [Range(default_crypto) -> TickerResponses] :
              LET c == cache_data("fetch_crypto_data", <<default_crypto>>,
                                  fetch_crypto_data(default_crypto, resp))
              IN  /\ Charge(c, resp)
                  /\ cache' = c.cache
                  /\ lastCall' = Record(c, resp)
                  /\ IF c.kind = "raise"
                     THEN Abort /\ UNCHANGED session
                     ELSE /\ session' = Put(session, "crypto_df", c.ret[1])
                          /\ pc' = "initial_stock"
                          /\ UNCHANGED status
       ELSE /\ pc' = "initial_stock"
            /\ UNCHANGED <<cache, lastCall, session, status, faults>>
    /\ UNCHANGED <<now, runs, version, selected_crypto, selected_stock, api_key,
                   news_placeholder, probe>>

\* if 'stock_df' not in st.session_state: ... = fetch_stock_data(default_stocks)
InitialStock ==
    /\ pc = "initial_stock"
    /\ IF "stock_df" \notin DOMAIN session
       THEN \E resp \in [Range(default_stocks) -> InfoResponses] :
              LET c == cache_data("fetch_stock_data", <<default_stocks>>,
                                  fetch_stock_data(default_stocks, resp))
              IN  /\ Charge(c, resp)
                  /\ cache' = c.cache
                  /\ lastCall' = Record(c, resp)
                  /\ IF c.kind = "raise"
                     THEN Abort /\ UNCHANGED session
                     ELSE /\ session' = Put(session, "stock_df", c.ret[1])
                          /\ pc' = "crypto_table"
                          /\ UNCHANGED status
       ELSE /\ pc' = "crypto_table"
            /\ UNCHANGED <<cache, lastCall, session, status, faults>>
    /\ UNCHANGED <<now, runs, version, selected_crypto, selected_stock, api_key,
                   news_placeholder, probe>>

refresh_frame_never(name, new_df) == session

\* the stored frame is replaced when the fetched one differs from it
refresh_frame(name, new_df) ==
    IF new_df # session[name] THEN Put(session, name, new_df) ELSE session

\* crypto tab, "Refresh Table"
CryptoTable ==
    /\ pc = "crypto_table"
    /\ \E resp \in [Range(default_crypto) -> TickerResponses] :
         LET c == cache_data("fetch_crypto_data", <<default_crypto>>,
                             fetch_crypto_data(default_crypto, resp))
         IN  /\ Charge(c, resp)
             /\ cache' = c.cache
             /\ lastCall' = Record(c, resp)
             /\ IF c.kind = "raise"
                THEN Abort /\ UNCHANGED session
                ELSE /\ session' = refresh_frame("crypto_df", c.ret[1])
                     /\ pc' = "crypto_chart"
                     /\ UNCHANGED status
    /\ UNCHANGED <<now, runs, version, selected_crypto, selected_stock, api_key,
                   news_placeholder, probe>>

store_chart_always(name, symbol, new_hist) ==
    Put(session, name,
        Put(IF name \in DOMAIN session THEN session[name] ELSE << >>,
            symbol, new_hist))

\* the chart store keeps a non-empty series under the selected symbol
store_chart(name, symbol, new_hist) ==
    IF ~empty(new_hist)
    THEN Put(session, name,
             Put(IF name \in DOMAIN session THEN session[name] ELSE << >>,
                 symbol, new_hist))
    ELSE session

\* crypto tab, "Chart Section"
CryptoChart ==
    /\ pc = "crypto_chart"
    /\ \E r \in KlineResponses :
         LET c == cache_data("fetch_crypto_historical", <<selected_crypto, DefaultDays>>,
                             fetch_crypto_historical(selected_crypto, DefaultDays, r))
         IN  /\ Charge(c, <<r>>)
             /\ cache' = c.cache
             /\ lastCall' = Record(c, <<r>>)
             /\ IF c.kind = "raise"
                THEN Abort /\ UNCHANGED session
                ELSE /\ session' = store_chart("crypto_chart", selected_crypto, c.ret[1])
                     /\ pc' = "stock_table"
                     /\ UNCHANGED status
    /\ UNCHANGED <<now, runs, version, selected_crypto, selected_stock, api_key,
                   news_placeholder, probe>>

\* stocks tab, "Refresh Table"
StockTable ==
    /\ pc = "stock_table"
    /\ \E resp \in [Range(default_stocks) -> InfoResponses] :
         LET c == cache_data("fetch_stock_data", <<default_stocks>>,
                             fetch_stock_data(default_stocks, resp))
         IN  /\ Charge(c, resp)
             /\ cache' = c.cache
             /\ lastCall' = Record(c, resp)
             /\ IF c.kind = "raise"
                THEN Abort /\ UNCHANGED session
                ELSE /\ session' = refresh_frame("stock_df", c.ret[1])
                     /\ pc' = "stock_chart"
                     /\ UNCHANGED status
    /\ UNCHANGED <<now, runs, version, selected_crypto, selected_stock, api_key,
                   news_placeholder, probe>>

\* stocks tab, "Chart Section"
StockChart ==
    /\ pc = "stock_chart"
    /\ \E hist \in HistoryResponses :
         LET c == cache_data("fetch_stock_historical", <<selected_stock, "1mo">>,
                             fetch_stock_historical(selected_stock, "1mo", hist))
         IN  /\ Charge(c, <<hist>>)
             /\ cache' = c.cache
             /\ lastCall' = Record(c, <<hist>>)
             /\ IF c.kind = "raise"
                THEN Abort /\ UNCHANGED session
                ELSE /\ session' = store_chart("stock_chart", selected_stock, c.ret[1])
                     /\ pc' = "news"
                     /\ UNCHANGED status
    /\ UNCHANGED <<now, runs, version, selected_crypto, selected_stock, api_key,
                   news_placeholder, probe>>

\* the provider's feed: eight articles, the newest first; a newer version of
\* the data has dropped the oldest head of the list
Feed8 == <<Article(1, 2000, TRUE), Article(2, -1000, TRUE), Article(3, 0, TRUE),
           Article(4, 4000, TRUE), Article(5, -3000, TRUE), Article(6, 4, TRUE),
           Article(7, 15, TRUE), Article(8, -6, TRUE)>>
NewsResponses ==
    {Exception, Http(401, TRUE, << >>), Http(200, TRUE, << >>),
     Http(200, FALSE, <<Article(1, 4, FALSE)>>),
     Http(200, TRUE, SubSeq(Feed8, version, Len(Feed8)))}

key_given_always == TRUE

\* if api_key:
key_given == api_key # ""

\* news tab: with a key, the news are fetched and shown (or a warning when
\* there is no article); without one, the notice asks for the key
NewsTab ==
    /\ pc = "news"
    /\ IF key_given
       THEN \E r \in NewsResponses :
              LET c == cache_data("fetch_english_finance_news",
                                  <<api_key, DefaultMaxArticles>>,
                                  fetch_english_finance_news(api_key, DefaultMaxArticles, r))
              IN  /\ Charge(c, <<r>>)
                  /\ cache' = c.cache
                  /\ lastCall' = Record(c, <<r>>)
                  /\ IF c.kind = "raise"
                     THEN Abort /\ UNCHANGED news_placeholder
                     ELSE /\ news_placeholder' =
                                IF Len(c.ret[1].articles) > 0 THEN "articles" ELSE "warning"
                          /\ pc' = "idle"
                          /\ status' = "done"
       ELSE /\ news_placeholder' = "info"
            /\ pc' = "idle"
            /\ status' = "done"
            /\ UNCHANGED <<cache, lastCall, faults>>
    /\ UNCHANGED <<now, runs, version, session, selected_crypto, selected_stock, api_key,
                   probe>>

Next ==
    \/ Tick
    \/ Rerun
    \/ InitialCrypto
    \/ InitialStock
    \/ CryptoTable
    \/ CryptoChart
    \/ StockTable
    \/ StockChart
    \/ NewsTab

Spec == Init /\ [][Next]_vars

----------------------------------------------------------------------------
(* fetch_english_finance_news on its own: one call of the function body    *)
(* for each provider answer and each max_articles                          *)

Polarities == {-3000, -15, 0, 4}

\* the feeds of at most MaxFeed articles, and the eight-article feed
Feeds ==
    {Feed8} \cup
    UNION {[1..n -> {Article(0, p, h) : p \in Polarities, h \in BOOLEAN}] :
              n \in 0..MaxFeed}

\* the provider numbers the articles of a feed in its order
numbered(feed) == [i \in 1..Len(feed) |-> Article(i, feed[i].polarity, feed[i].hasSource)]

InitNews ==
    /\ InitDash
    /\ \E status_code \in {200, 401}, feed \in Feeds,
          max \in (0..(MaxFeed + 1)) \cup {DefaultMaxArticles} :
         probe = [response |-> Http(status_code, TRUE, numbered(feed)),
                  max_articles |-> max, result |-> << >>]

CallNews ==
    /\ probe.result = << >>
    /\ probe' = [probe EXCEPT !.result =
                    <<fetch_english_finance_news("key1", probe.max_articles,
                                                 probe.response)>>]
    /\ UNCHANGED dash

NextNews == CallNews

SpecNews == InitNews /\ [][NextNews]_vars

----------------------------------------------------------------------------
(* Properties *)

\* a cached function was called in this step
Called == lastCall' # lastCall /\ lastCall'.kind # "none"

\* the cache key of a call: the function and its argument values
KeyOf(call) == <<call.fn>> \o call.args

\* the time to live of each function's entries
ClaimedTtl(fn) == IF fn = "fetch_english_finance_news" THEN 120 ELSE 60

\* before the step, key k of function fn has an entry younger than its ttl
ValidEntry(k, fn) == k \in DOMAIN cache /\ now - cache[k].storedAt < ClaimedTtl(fn)

\* C1: a call for a key whose entry was stored less than its ttl ago (60 s,
\* news 120 s) does not run the fetch, returns the stored value and leaves
\* the cache as it is, in whichever run and at whichever call site.
C1_HitWithinTtl ==
    [][Called =>
         LET k == KeyOf(lastCall') IN
         ValidEntry(k, lastCall'.fn) =>
             /\ lastCall'.fetches = 0
             /\ lastCall'.kind = "return"
             /\ lastCall'.ret = <<cache[k].value>>
             /\ cache' = cache]_vars

\* a news entry served from the cache when it is at least 60 s old
C1_Witness ==
    /\ lastCall.fn = "fetch_english_finance_news"
    /\ lastCall.fetches = 0
    /\ lastCall.kind = "return"
    /\ now - cache[KeyOf(lastCall)].storedAt >= 60

\* C2: an entry is valid iff now - storedAt < ttl (60, news 120).  A call
\* that finds no valid entry runs the fetch exactly once, and the result
\* the fetch returns replaces the entry with storedAt = now and is what the
\* call returns; a call that finds a valid entry does not fetch.
C2_MissFetchesOnceAndStores ==
    [][Called =>
         LET c == lastCall'
             k == KeyOf(c)
         IN  /\ (c.fetches = 0) <=> ValidEntry(k, c.fn)
             /\ ~ValidEntry(k, c.fn) =>
                  /\ c.fetches = 1
                  /\ c.kind = "return" =>
                       /\ Len(c.fetched) = 1
                       /\ c.ret = c.fetched
                       /\ k \in DOMAIN cache'
                       /\ cache'[k] = [value |-> c.fetched[1], storedAt |-> now']]_vars

\* the second run, with no anomaly so far, refetches the crypto table that
\* the first run stored, and gets the data of version 2
C2_Witness ==
    /\ runs = 2
    /\ faults = 0
    /\ lastCall.site = "crypto_table"
    /\ lastCall.fetches = 1
    /\ lastCall.kind = "return"
    /\ version = 2
    /\ cache[KeyOf(lastCall)] = [value |-> lastCall.ret[1], storedAt |-> now]
    /\ now >= 60

\* C3: a call for key K (a hit, a miss, a refresh or a failure) leaves the
\* entry of every other key as it is and adds no entry but K's; a step
\* that calls no cached function leaves the cache as it is.
C3_DistinctKeysIndependent ==
    [][/\ ~Called => cache' = cache
       /\ Called =>
            LET k == KeyOf(lastCall') IN
            /\ DOMAIN cache' \subseteq DOMAIN cache \cup {k}
            /\ \A k2 \in DOMAIN cache :
                 k2 # k => k2 \in DOMAIN cache' /\ cache'[k2] = cache[k2]]_vars

\* the klines of one symbol are refetched while those of the other symbol
\* keep their older entry
C3_Witness ==
    /\ lastCall.fn = "fetch_crypto_historical"
    /\ lastCall.fetches = 1
    /\ lastCall.kind = "return"
    /\ \E sym \in Range(default_crypto) :
         LET k2 == <<"fetch_crypto_historical", sym, DefaultDays>> IN
         /\ sym # lastCall.args[1]
         /\ k2 \in DOMAIN cache
         /\ cache[k2].storedAt < now
         /\ KeyOf(lastCall) \in DOMAIN cache
         /\ cache[KeyOf(lastCall)].storedAt = now

\* C4: a fetch whose requests all failed (an error status, an exception, a
\* malformed payload) stores nothing: the cache is after the call as it was
\* before, so the empty result is not served to the next call.
C4_FailedFetchNotCached ==
    [][(Called /\ lastCall'.failed = "all") => cache' = cache]_vars

\* C5: a failed request gives an empty result for its category and the run
\* goes on: the call returns and the run is not aborted.
C5_FailureIsLocal ==
    [][(Called /\ lastCall'.failed # "none") =>
          (lastCall'.kind = "return" /\ status' # "aborted")]_vars

\* C8: in a run with an empty API key the news tab calls no cached
\* function, leaves the cache and the session as they are and shows the
\* notice asking for the key; no call of the run is a news fetch.
C8_NoKeyNoNewsFetch ==
    [][/\ (pc = "news" /\ pc' # "news" /\ api_key = "") =>
            /\ cache' = cache
            /\ session' = session
            /\ lastCall' = lastCall
            /\ news_placeholder' = "info"
            /\ status' = "done"
       /\ (api_key' = "" /\ status' # "none") =>
            lastCall'.fn # "fetch_english_finance_news"]_vars

\* a run without key has ended with the notice, while the cache holds the
\* news of an earlier run
C8_Witness ==
    /\ status = "done"
    /\ api_key = ""
    /\ news_placeholder = "info"
    /\ \E k \in DOMAIN cache : k[1] = "fetch_english_finance_news"

\* the stored frames and the functions that fill them
Frames == {<<"crypto_df", "fetch_crypto_data">>, <<"stock_df", "fetch_stock_data">>}

\* C9: a stored frame is created by the initial load when it is absent, is
\* afterwards replaced only by the table refresh when the fetched table
\* differs, and equals the table a fetch of the run has returned, an empty
\* table included.
C9_StoredFrameIsFetchedTable ==
    [][\A f \in Frames :
         LET name == f[1] IN
         /\ (Called /\ lastCall'.fn = f[2] /\ lastCall'.kind = "return") =>
               (name \in DOMAIN session' /\ session'[name] = lastCall'.ret[1])
         /\ name \in DOMAIN session =>
               /\ name \in DOMAIN session'
               /\ session'[name] # session[name] =>
                    /\ Called
                    /\ lastCall'.fn = f[2]
                    /\ lastCall'.site \in {"crypto_table", "stock_table"}
         /\ (name \notin DOMAIN session /\ name \in DOMAIN session') =>
               /\ Called
               /\ lastCall'.fn = f[2]
               /\ lastCall'.site \in {"initial_crypto", "initial_stock"}]_vars

\* a later run has refetched the crypto table, every symbol's request
\* failed, and the stored frame is the empty table
C9_Witness ==
    /\ runs >= 2
    /\ lastCall.site = "crypto_table"
    /\ lastCall.fetches = 1
    /\ lastCall.ret = << << >> >>
    /\ session["crypto_df"] = << >>

\* the chart stores and the functions that fill them
Charts == {<<"crypto_chart", "fetch_crypto_historical">>,
           <<"stock_chart", "fetch_stock_historical">>}

chart_store(sess, name) == IF name \in DOMAIN sess THEN sess[name] ELSE << >>

\* C10: a chart store changes only under the selected symbol and only to
\* the non-empty series the run's fetch for that symbol has returned, so
\* every stored chart is a non-empty series of its own symbol.
C10_ChartStoreKeepsGoodSeries ==
    [][\A c \in Charts :
         LET old == chart_store(session, c[1])
             new == chart_store(session', c[1])
         IN  /\ \A sym \in DOMAIN new :
                  /\ Len(new[sym]) > 0
                  /\ \A i \in 1..Len(new[sym]) : new[sym][i].Symbol = sym
             /\ DOMAIN old \subseteq DOMAIN new
             /\ \A sym \in DOMAIN new :
                  (sym \notin DOMAIN old \/ new[sym] # old[sym]) =>
                     /\ Called
                     /\ lastCall'.fn = c[2]
                     /\ lastCall'.kind = "return"
                     /\ lastCall'.args[1] = sym
                     /\ sym \in {selected_crypto, selected_stock}
                     /\ new[sym] = lastCall'.ret[1]]_vars

\* the fetch for the selected symbol has returned an empty series while
\* the store holds a series for it and for the other symbol
C10_Witness ==
    /\ lastCall.site = "crypto_chart"
    /\ lastCall.kind = "return"
    /\ lastCall.ret = << << >> >>
    /\ "crypto_chart" \in DOMAIN session
    /\ DOMAIN session["crypto_chart"] = Range(default_crypto)
    /\ session["crypto_chart"][selected_crypto] # << >>

----------------------------------------------------------------------------
(* Properties of fetch_english_finance_news, under SpecNews *)

Min(a, b) == IF a < b THEN a ELSE b
Abs(x) == IF x < 0 THEN -x ELSE x

\* f[1] + ... + f[n]
RECURSIVE SumTo(_, _)
SumTo(f, n) == IF n = 0 THEN 0 ELSE f[n] + SumTo(f, n - 1)

called == probe.result # << >>
result == probe.result[1]
feed == probe.response.body

\* C6: on a status 200 response with n well-formed articles the function
\* returns exactly the first min(n, max_articles) of them in the provider's
\* order, each with its own polarity rounded to three decimals.
C6_FirstMaxArticles ==
    (called /\ probe.response.status = 200
        /\ \A i \in 1..Len(feed) : feed[i].hasSource) =>
      LET m == Min(Len(feed), probe.max_articles) IN
      /\ result.kind = "return"
      /\ Len(result.value.articles) = m
      /\ \A i \in 1..m :
           /\ result.value.articles[i].id = feed[i].id
           /\ result.value.articles[i].sentiment % 10 = 0
           /\ Abs(result.value.articles[i].sentiment - feed[i].polarity) <= 5

\* eight articles, max_articles = 5: the first five are returned
C6_Witness ==
    /\ called
    /\ probe.response.status = 200
    /\ Len(feed) = 8
    /\ probe.max_articles = 5
    /\ result.kind = "return"
    /\ Len(result.value.articles) = 5
    /\ result.value.articles[5].id = 5

\* C7 as stated: the aggregate is the mean of the scores the returned
\* articles carry, and 0.0 when there is none.
C7_AggregateIsMeanOfCarried ==
    (called /\ result.kind = "return") =>
      LET v == result.value
          n == Len(v.articles)
          carried == [i \in 1..n |-> v.articles[i].sentiment]
      IN  /\ n > 0 => v.avg_sentiment.num * n = SumTo(carried, n) * v.avg_sentiment.den
          /\ n = 0 => v.avg_sentiment.num = 0

\* C7, amended: the aggregate is the mean of the returned articles'
\* polarities before they are rounded, so within 0.0005 of the mean of the
\* carried scores; it is 0.0, with no article and no exception, when the
\* provider returns no article or the status is not 200.
C7_AggregateIsMeanOfPolarities ==
    called =>
      /\ (probe.response.status # 200 \/ Len(feed) = 0) =>
            /\ result.kind = "return"
            /\ result.value.articles = << >>
            /\ result.value.avg_sentiment.num = 0
      /\ result.kind = "return" =>
            LET v == result.value
                n == Len(v.articles)
                carried == [i \in 1..n |-> v.articles[i].sentiment]
                polarity == [i \in 1..n |-> feed[i].polarity]
            IN  /\ v.avg_sentiment.den > 0
                /\ n > 0 => v.avg_sentiment.num * n
                              = SumTo(polarity, n) * v.avg_sentiment.den
                /\ n = 0 => v.avg_sentiment.num = 0
                /\ Abs(SumTo(carried, n) - SumTo(polarity, n)) <= 5 * n

\* two articles or more are returned and the carried scores do not add up
\* to the polarities
C7_Witness ==
    /\ called
    /\ result.kind = "return"
    /\ Len(result.value.articles) >= 2
    /\ SumTo([i \in 1..Len(result.value.articles) |->
                 result.value.articles[i].sentiment], Len(result.value.articles))
         # result.value.avg_sentiment.num

====
